---- MODULE Spec2Model ----
(***************************************************************************)
(* Model of gribdownloader.go: the range selection of generateRanges, the *)
(* size report of main, and the concurrent fetch-and-write engine of      *)
(* downloadRanges / downloadRange, and the index parser parseIDXFile.      *)
(*                                                                         *)
(* Three specifications share the module:                                  *)
(*   SpecSel  main's pure pipeline: generateRanges, then the size loop.    *)
(*   SpecDl   one call of downloadRanges with its goroutines.              *)
(*   SpecParse  parseIDXFile called twice on one idx file.                 *)
(***************************************************************************)
EXTENDS Integers, Sequences, FiniteSets

VARIABLES
    \* ---- main / generateRanges ----
    parameters,       \* []GFSParameter handed to generateRanges
    requestedParams,  \* map[string][]string (config.Parameters)
    provisional,      \* generateRanges: `ranges` when the first loop ends
    ranges,           \* generateRanges: the returned slice
    totalSize,        \* main: totalSize after the print loop
    pcm,              \* main: position
    \* ---- downloadRanges / downloadRange ----
    plan,             \* downloadRanges: its `ranges` argument
    file,             \* the destination file's bytes (offset o is file[o+1])
    mutex,            \* sync.Mutex: TRUE when locked
    errors,           \* the buffered error channel
    opc,              \* downloadRanges: position
    launched,         \* downloadRanges: goroutines started so far
    maxEnd,           \* downloadRanges: maxEnd
    result,           \* downloadRanges: returned error
    tpc,              \* per goroutine: position
    body,             \* per goroutine: resp.Body still to be copied
    terr,             \* per goroutine: error returned by downloadRange
    \* ---- parseIDXFile ----
    idxLines,         \* the index as it was written: per line, its fields
    idxText,          \* the bytes of the idx file
    parsed,           \* what the first call of parseIDXFile returned
    reparsed,         \* what a second call on the same file returned
    ppc               \* position of the caller of parseIDXFile

selVars == <<parameters, requestedParams, provisional, ranges, totalSize, pcm>>
dlVars  == <<plan, file, mutex, errors, opc, launched, maxEnd, result,
             tpc, body, terr>>
parseVars == <<idxLines, idxText, parsed, reparsed, ppc>>
vars    == <<selVars, dlVars, parseVars>>

(***************************************************************************)
(* Bounds of the checked instances.                                        *)
(***************************************************************************)
MaxEntries == 3      \* index entries in a generic index
MaxOffset  == 2      \* largest byte offset in a generic index
MaxLines   == 2      \* lines of an idx file

ParamNames == {"A", "B"}
LevelNames == {"sfc", "850mb"}

\* 1024*1024, the buffer added after the last index entry
BufferSize == 1048576

\* bufio.MaxScanTokenSize (64 * 1024), the limit of the bufio.Scanner that
\* line 75 creates with its default buffer
MaxScanTokenSize == 65536

(***************************************************************************)
(* Data types.                                                             *)
(***************************************************************************)
GFSParameter(n, off, p, l) ==
    [Number |-> n, Offset |-> off, Date |-> "2024010100",
     Parameter |-> p, Level |-> l, Type |-> "anl"]

RangeDownload(s, e) == [Start |-> s, End |-> e]

SeqsUpTo(S, n) == UNION {[1..k -> S] : k \in 0..n}

IsNonDecreasing(offs) == \A i \in 1..(Len(offs) - 1) : offs[i] <= offs[i + 1]

\* Generic indexes: offsets non-negative and non-decreasing (the index
\* invariant generateRanges relies on), every parameter/level labelling.
GenericIndexes ==
    { [i \in 1..Len(offs) |-> GFSParameter(i, offs[i], lab[i][1], lab[i][2])] :
        <<offs, lab>> \in
            UNION { {o \in [1..k -> 0..MaxOffset] : IsNonDecreasing(o)}
                      \X [1..k -> ParamNames \X LevelNames] : k \in 0..MaxEntries } }

\* The two concrete indexes of the documented scenarios.
ScenarioThree ==
    << GFSParameter(1, 0, "A", "sfc"),
       GFSParameter(2, 1000, "B", "sfc"),
       GFSParameter(3, 2500, "A", "850mb") >>

ScenarioGap ==
    << GFSParameter(1, 0, "A", "sfc"),
       GFSParameter(2, 500, "A", "850mb"),
       GFSParameter(3, 600, "B", "sfc"),
       GFSParameter(4, 900, "A", "sfc") >>

Indexes == GenericIndexes \cup {ScenarioThree, ScenarioGap}

\* Requests: a map from some parameter names to level lists.
LevelLists == { <<>>, <<"sfc">>, <<"850mb">>, <<"sfc", "850mb">> }

Requests == UNION { [D -> LevelLists] : D \in SUBSET ParamNames }

(***************************************************************************)
(* generateRanges (lines 114-176).                                         *)
(***************************************************************************)
\* Variant of levelRequested: an empty level list selects no level.
levelRequestedEmptyNone(levels, level) ==
    \E k \in 1..Len(levels) : levels[k] = level

\* lines 125-135: the level test
levelRequested(levels, level) ==
    IF Len(levels) = 0
    THEN TRUE
    ELSE \E k \in 1..Len(levels) : levels[k] = level

\* lines 119-139: does the entry pass both `continue` tests
paramSelected(param, requested) ==
    /\ param.Parameter \in DOMAIN requested
    /\ levelRequested(requested[param.Parameter], param.Level)

\* Variant of endOffset: the end is the next entry's offset itself.
endOffsetNextStart(params, i) ==
    IF i < Len(params)
    THEN params[i + 1].Offset
    ELSE params[i].Offset + BufferSize

\* lines 141-148: the end offset of entry i (1-based here)
endOffset(params, i) ==
    IF i < Len(params)
    THEN params[i + 1].Offset - 1
    ELSE params[i].Offset + BufferSize

\* lines 117-154: the first loop, from entry i on, appending to acc
RECURSIVE collectRanges(_, _, _, _)
collectRanges(params, requested, i, acc) ==
    IF i > Len(params)
    THEN acc
    ELSE collectRanges(params, requested, i + 1,
            IF paramSelected(params[i], requested)
            THEN Append(acc, RangeDownload(params[i].Offset, endOffset(params, i)))
            ELSE acc)

\* Variant of mergeStep: only overlapping ranges merge, adjacent ones do not.
mergeStepOverlapOnly(merged, current) ==
    LET last == merged[Len(merged)] IN
    IF current.Start <= last.End
    THEN IF current.End > last.End
         THEN [merged EXCEPT ![Len(merged)].End = current.End]
         ELSE merged
    ELSE Append(merged, current)

\* Variant of mergeStep: a merged-in range does not extend the last one.
mergeStepNoExtend(merged, current) ==
    LET last == merged[Len(merged)] IN
    IF current.Start <= last.End + 1
    THEN merged
    ELSE Append(merged, current)

\* lines 160-170: one iteration of the merge loop
mergeStep(merged, current) ==
    LET last == merged[Len(merged)] IN
    IF current.Start <= last.End + 1
    THEN IF current.End > last.End
         THEN [merged EXCEPT ![Len(merged)].End = current.End]
         ELSE merged
    ELSE Append(merged, current)

\* Variant of mergeLoop: after a merge the next range is appended unexamined.
RECURSIVE mergeLoopSkipNext(_, _, _)
mergeLoopSkipNext(rs, i, merged) ==
    IF i > Len(rs)
    THEN merged
    ELSE IF rs[i].Start <= merged[Len(merged)].End + 1 /\ i < Len(rs)
         THEN mergeLoopSkipNext(rs, i + 2, Append(mergeStep(merged, rs[i]), rs[i + 1]))
         ELSE mergeLoopSkipNext(rs, i + 1, mergeStep(merged, rs[i]))

\* lines 159-171: the merge loop from position i on
RECURSIVE mergeLoop(_, _, _)
mergeLoop(rs, i, merged) ==
    IF i > Len(rs)
    THEN merged
    ELSE mergeLoop(rs, i + 1, mergeStep(merged, rs[i]))

\* lines 156-173: the merge pass
mergeRanges(rs) ==
    IF Len(rs) > 1
    THEN mergeLoop(rs, 2, <<rs[1]>>)
    ELSE rs

\* lines 114-176: the returned slice
generateRanges(params, requested) ==
    mergeRanges(collectRanges(params, requested, 1, <<>>))

\* line 175: the returned error
generateRangesErr(params, requested) == "nil"

(***************************************************************************)
(* main (lines 321-336).                                                   *)
(***************************************************************************)
\* line 332
rangeSize(r) == r.End - r.Start + 1

\* lines 330-335: the accumulation of totalSize
RECURSIVE sumSizes(_, _, _)
sumSizes(rs, i, total) ==
    IF i > Len(rs)
    THEN total
    ELSE sumSizes(rs, i + 1, total + rangeSize(rs[i]))

(***************************************************************************)
(* parseIDXFile (lines 66-111).                                            *)
(*                                                                         *)
(* Text is a sequence of runs: [Ch |-> c, N |-> n] stands for n copies of  *)
(* the character c.  Every character of an index line is a run of one;     *)
(* only the filler letter "x" comes in longer runs, which is how a line    *)
(* beyond the scanner's buffer is written down.                            *)
(***************************************************************************)
run(c, n) == [Ch |-> c, N |-> n]

str(cs) == [i \in 1..Len(cs) |-> run(cs[i], 1)]

RECURSIVE textLen(_)
textLen(t) == IF t = <<>> THEN 0 ELSE t[1].N + textLen(Tail(t))

Digits == {"0", "1", "2", "3", "4", "5", "6", "7", "8", "9"}

digitValue(c) ==
    CASE c = "0" -> 0 [] c = "1" -> 1 [] c = "2" -> 2 [] c = "3" -> 3
      [] c = "4" -> 4 [] c = "5" -> 5 [] c = "6" -> 6 [] c = "7" -> 7
      [] c = "8" -> 8 [] c = "9" -> 9

\* The pieces of t between the occurrences of character sep, from run i on,
\* cur being the piece under way: strings.Split(line, ":") at line 78, and
\* the cut at "\n" of bufio.ScanLines.
RECURSIVE splitOn(_, _, _, _)
splitOn(t, sep, i, cur) ==
    IF i > Len(t)
    THEN <<cur>>
    ELSE IF t[i].Ch = sep
         THEN <<cur>> \o splitOn(t, sep, i + 1, <<>>)
         ELSE splitOn(t, sep, i + 1, Append(cur, t[i]))

\* bufio.ScanLines: a last line needs no newline, and nothing follows the
\* last newline
scanTokens(t) ==
    LET pieces == splitOn(t, "\n", 1, <<>>)
    IN  IF pieces[Len(pieces)] = <<>>
        THEN SubSeq(pieces, 1, Len(pieces) - 1)
        ELSE pieces

\* bufio.ScanLines drops one trailing carriage return
dropCR(line) ==
    IF line # <<>> /\ line[Len(line)].Ch = "\r"
    THEN IF line[Len(line)].N = 1
         THEN SubSeq(line, 1, Len(line) - 1)
         ELSE [line EXCEPT ![Len(line)].N = @ - 1]
    ELSE line

\* the Scanner cannot hold a line of MaxScanTokenSize bytes or more: Scan
\* returns false and scanner.Err() is bufio.ErrTooLong (lines 105-107)
tooLong(line) == textLen(line) >= MaxScanTokenSize

\* the digits of a number, after an optional sign
unsigned(s) ==
    IF s # <<>> /\ s[1] \in {run("+", 1), run("-", 1)} THEN Tail(s) ELSE s

\* strconv.Atoi / ParseInt(s, 10, 64) report a syntax error
atoiErr(s) ==
    \/ unsigned(s) = <<>>
    \/ \E i \in 1..Len(unsigned(s)) : unsigned(s)[i].Ch \notin Digits

RECURSIVE digitsValue(_, _, _, _)
digitsValue(s, i, k, acc) ==
    IF i > Len(s)
    THEN acc
    ELSE IF k > s[i].N
         THEN digitsValue(s, i + 1, 1, acc)
         ELSE digitsValue(s, i, k + 1, acc * 10 + digitValue(s[i].Ch))

\* the value of strconv.Atoi / ParseInt on a string without syntax error
\* (the numbers of the checked files are far from the range limit)
atoi(s) ==
    IF s # <<>> /\ s[1] = run("-", 1)
    THEN 0 - digitsValue(unsigned(s), 1, 1, 0)
    ELSE digitsValue(unsigned(s), 1, 1, 0)

\* line 97: strings.TrimPrefix(parts[2], "d=")
trimDatePrefix(s) ==
    IF Len(s) >= 2 /\ s[1] = run("d", 1) /\ s[2] = run("=", 1)
    THEN SubSeq(s, 3, Len(s))
    ELSE s

\* lines 77-103: the body of the scan loop for one line
parseLine(line, entries) ==
    LET parts == splitOn(line, ":", 1, <<>>)
    IN  IF Len(parts) < 6
        THEN entries
        ELSE IF atoiErr(parts[1])
        THEN entries
        ELSE IF atoiErr(parts[2])
        THEN entries
        ELSE Append(entries,
                    [Number |-> atoi(parts[1]), Offset |-> atoi(parts[2]),
                     Date |-> trimDatePrefix(parts[3]), Parameter |-> parts[4],
                     Level |-> parts[5], Type |-> parts[6]])

\* lines 76-110: the scan loop over the lines from position i on, and the
\* return
RECURSIVE scanLoop(_, _, _)
scanLoop(tokens, i, entries) ==
    IF i > Len(tokens)
    THEN [Params |-> entries, Err |-> "nil"]
    ELSE IF tooLong(tokens[i])
         THEN [Params |-> <<>>,
               Err |-> "error reading idx file: bufio.Scanner: token too long"]
         ELSE scanLoop(tokens, i + 1, parseLine(dropCR(tokens[i]), entries))

parseIDXFile(text) == scanLoop(scanTokens(text), 1, <<>>)

NotParsed == [Params |-> <<>>, Err |-> "not called"]

ParseIdle ==
    /\ idxLines = <<>> /\ idxText = <<>>
    /\ parsed = NotParsed /\ reparsed = NotParsed
    /\ ppc = "idle"

(***************************************************************************)
(* SpecSel: main from the call of generateRanges to the size report.       *)
(***************************************************************************)
DlIdle ==
    /\ plan = <<>> /\ file = <<>> /\ mutex = FALSE /\ errors = <<>>
    /\ opc = "idle" /\ launched = 0 /\ maxEnd = 0
    /\ result = [Kind |-> "none", Count |-> 0, Errors |-> <<>>]
    /\ tpc = <<>> /\ body = <<>> /\ terr = <<>>

InitSel ==
    /\ parameters \in Indexes
    /\ requestedParams \in Requests
    /\ provisional = <<>>
    /\ ranges = <<>>
    /\ totalSize = 0
    /\ pcm = "parsed"
    /\ DlIdle
    /\ ParseIdle

\* lines 322-326: ranges, err := generateRanges(...); return on an error
MainGenerate ==
    /\ pcm = "parsed"
    /\ provisional' = collectRanges(parameters, requestedParams, 1, <<>>)
    /\ ranges' = generateRanges(parameters, requestedParams)
    /\ pcm' = IF generateRangesErr(parameters, requestedParams) # "nil"
              THEN "failed"
              ELSE "generated"
    /\ UNCHANGED <<parameters, requestedParams, totalSize, dlVars, parseVars>>

\* lines 329-336: the size loop
MainReport ==
    /\ pcm = "generated"
    /\ totalSize' = sumSizes(ranges, 1, 0)
    /\ pcm' = "reported"
    /\ UNCHANGED <<parameters, requestedParams, provisional, ranges, dlVars, parseVars>>

NextSel == MainGenerate \/ MainReport

SpecSel == InitSel /\ [][NextSel]_vars

(***************************************************************************)
(* Properties of generateRanges and of the size report, under SpecSel.     *)
(* The selection is restated here from the index and the request alone.    *)
(***************************************************************************)
Generated == pcm \in {"generated", "reported"}

\* The positions of the index entries the request selects.
IncludedIdx ==
    { i \in DOMAIN parameters :
        /\ parameters[i].Parameter \in DOMAIN requestedParams
        /\ LET lv == requestedParams[parameters[i].Parameter] IN
           lv = <<>> \/ parameters[i].Level \in {lv[n] : n \in DOMAIN lv} }

\* The k-th selected position, in index order.
NthIncluded(k) ==
    CHOOSE i \in IncludedIdx : Cardinality({j \in IncludedIdx : j < i}) = k - 1

ProvStart(i) == parameters[i].Offset

ProvEnd(i) ==
    IF i + 1 \in DOMAIN parameters
    THEN parameters[i + 1].Offset - 1
    ELSE parameters[i].Offset + 1048576

\* Offset x lies in the provisional range of some selected entry.
Claimed(x) == \E i \in IncludedIdx : ProvStart(i) <= x /\ x <= ProvEnd(i)

RECURSIVE SumOfSizes(_)
SumOfSizes(K) ==
    IF K = {}
    THEN 0
    ELSE LET k == CHOOSE x \in K : TRUE IN
         (ranges[k].End - ranges[k].Start + 1) + SumOfSizes(K \ {k})

\* C5: every range generateRanges returns has start <= end and start >= 0.
RangesWellFormed ==
    Generated =>
        \A k \in DOMAIN ranges : ranges[k].Start <= ranges[k].End /\ ranges[k].Start >= 0

\* C6: the returned list is sorted ascending by start, and any later range
\* starts more than one byte after an earlier range ends (no overlap, no
\* adjacency); in particular b.start > a.end + 1 for neighbours a, b.
MergedSortedNonAdjacent ==
    Generated =>
        \A a \in DOMAIN ranges : \A b \in DOMAIN ranges :
            a < b => /\ ranges[a].Start <= ranges[b].Start
                     /\ ranges[b].Start > ranges[a].End + 1

\* C6 witness: a merge took place and two ranges with a gap were returned.
MergedSortedWitness ==
    /\ pcm = "generated"
    /\ Len(ranges) >= 2
    /\ Len(provisional) > Len(ranges)

\* C7: the non-empty provisional range [s, e] of every selected entry lies
\* inside one returned range, and no other returned range holds a byte of it
\* (so each of its offsets is in exactly one returned range).
CoverageExactlyOnce ==
    Generated =>
        \A i \in IncludedIdx :
            ProvStart(i) <= ProvEnd(i) =>
                \E j \in DOMAIN ranges :
                    /\ ranges[j].Start <= ProvStart(i)
                    /\ ProvEnd(i) <= ranges[j].End
                    /\ \A m \in DOMAIN ranges \ {j} :
                          \/ ranges[m].End < ProvStart(i)
                          \/ ranges[m].Start > ProvEnd(i)

\* C7 witness: a selected entry's range was absorbed into an earlier one,
\* which grew to hold it.
CoverageWitness ==
    /\ pcm = "generated"
    /\ \E k \in DOMAIN provisional :
          /\ k > 1
          /\ provisional[k].Start <= provisional[k].End
          /\ \E j \in DOMAIN ranges :
                /\ ranges[j].Start < provisional[k].Start
                /\ ranges[j].End = provisional[k].End

\* C8: the returned ranges cover only offsets claimed by a selected entry,
\* the excluded span 600..899 of the documented scenario is not covered, and
\* the list has as few ranges as any list with that coverage (one per maximal
\* run of claimed offsets).
NoOverCoverageMinimal ==
    Generated =>
        /\ \A j \in DOMAIN ranges :
              ranges[j].Start <= ranges[j].End =>
                  /\ Claimed(ranges[j].Start)
                  /\ \A i \in IncludedIdx :
                        (ranges[j].Start <= ProvEnd(i) /\ ProvEnd(i) < ranges[j].End)
                            => Claimed(ProvEnd(i) + 1)
        /\ (parameters = ScenarioGap /\ 3 \notin IncludedIdx) =>
              \A j \in DOMAIN ranges : ranges[j].End < 600 \/ ranges[j].Start > 899
        /\ Len(ranges) =
              Cardinality({ ProvStart(i) : i \in
                  { n \in IncludedIdx : ProvStart(n) <= ProvEnd(n)
                                        /\ ~Claimed(ProvStart(n) - 1) } })

\* C9: the k-th provisional range belongs to the k-th selected entry i, with
\* start = entries[i].offset and end = entries[i+1].offset - 1 when a next
\* entry exists, else entries[i].offset + 1048576; the total size is the sum
\* of end - start + 1 over the returned ranges; the documented three-entry
\* index with request {A: all levels} gives [0,999], [2500,2500+1048576] and
\* total 1000 + 1048577.
ProvisionalRule ==
    /\ Generated =>
          /\ Len(provisional) = Cardinality(IncludedIdx)
          /\ \A k \in DOMAIN provisional :
                provisional[k] = [Start |-> ProvStart(NthIncluded(k)),
                                  End   |-> ProvEnd(NthIncluded(k))]
    /\ pcm = "reported" => totalSize = SumOfSizes(DOMAIN ranges)
    /\ (pcm = "reported" /\ parameters = ScenarioThree
            /\ DOMAIN requestedParams = {"A"} /\ requestedParams["A"] = <<>>) =>
          /\ ranges = << [Start |-> 0, End |-> 999],
                         [Start |-> 2500, End |-> 2500 + 1048576] >>
          /\ totalSize = 1000 + 1048577

\* C9 witness: the documented three-entry scenario has been reported.
ProvisionalRuleWitness ==
    /\ pcm = "reported"
    /\ parameters = ScenarioThree
    /\ DOMAIN requestedParams = {"A"}
    /\ requestedParams["A"] = <<>>
    /\ Len(ranges) = 2

\* C10: an entry contributes a range iff its parameter is a key of the
\* request and the key's level list is empty or holds the entry's level; a
\* request that selects no entry gives no range, total size 0 and no error.
InclusionRule ==
    /\ pcm # "failed"
    /\ Generated =>
          /\ Len(provisional) = Cardinality(IncludedIdx)
          /\ \A k \in DOMAIN provisional :
                provisional[k].Start = parameters[NthIncluded(k)].Offset
          /\ IncludedIdx = {} => ranges = <<>>
    /\ (pcm = "reported" /\ IncludedIdx = {}) => totalSize = 0

\* C10 witness: a non-empty index, a request naming a parameter of the index
\* with a level no entry of it has, nothing selected, reported as size 0.
InclusionRuleWitness ==
    /\ pcm = "reported"
    /\ IncludedIdx = {}
    /\ \E i \in DOMAIN parameters :
          /\ parameters[i].Parameter \in DOMAIN requestedParams
          /\ requestedParams[parameters[i].Parameter] # <<>>
    /\ ranges = <<>>

\* C16: the merge pass applied to the list generateRanges returned (itself
\* an output of the merge pass) gives that list back unchanged.
MergeIdempotent == Generated => mergeRanges(ranges) = ranges

\* C16 witness: the merge pass turned three ranges into two, and a second
\* pass over the two has something to walk through.
MergeIdempotentWitness ==
    /\ pcm = "reported"
    /\ Len(provisional) >= 3
    /\ Len(ranges) = 2
    /\ ranges # provisional

(***************************************************************************)
(* downloadRanges / downloadRange (lines 179-282).                         *)
(***************************************************************************)
MaxRanges == 2       \* ranges in a plan (one goroutine each)
MaxByte   == 3       \* largest end offset in a plan

\* The remote resource: the byte at offset o.
srcByte(o) == o + 1

\* The bytes a partial-content response carries for bytes=s-e.
span(r) == [i \in 1..(r.End - r.Start + 1) |-> srcByte(r.Start + i - 1)]

prefix(sq, k) == [i \in 1..k |-> sq[i]]

\* Plans: what generateRanges can return, scaled down: starts ascending,
\* a gap between neighbours, start <= end + 1.
IsPlan(p) ==
    /\ \A i \in 1..Len(p) : p[i].Start <= p[i].End + 1
    /\ \A i \in 1..(Len(p) - 1) : p[i + 1].Start > p[i].End + 1

Plans ==
    { p \in SeqsUpTo({RangeDownload(s, e) : s \in 0..MaxByte, e \in (-1)..MaxByte},
                     MaxRanges) : IsPlan(p) }

\* What the destination path may hold before the call.
StaleFile == [i \in 1..(MaxByte + 3) |-> 255]

Tasks == 1..Len(plan)

\* lines 232-237
RECURSIVE computeMaxEnd(_, _, _)
computeMaxEnd(rs, i, m) ==
    IF i > Len(rs)
    THEN m
    ELSE computeMaxEnd(rs, i + 1, IF rs[i].End > m THEN rs[i].End ELSE m)

\* Variant of preallocSize: the size is the last offset, not the byte count.
preallocSizeShort(m) == m

\* line 246: the size handed to Truncate
preallocSize(m) == m + 1

\* file.Truncate(n) on the freshly truncated file: n zero bytes
truncateTo(f, n) == [i \in 1..n |-> IF i <= Len(f) THEN f[i] ELSE 0]

\* Variant of seekPos: the writer stays where OpenFile left it.
seekPosUnmoved(r) == 0

\* line 215: the position the writer is moved to
seekPos(r) == r.Start

\* line 221: data written at byte position pos (a write past the end grows
\* the file, a gap reads as zero)
writeAt(f, pos, data) ==
    LET n == IF pos + Len(data) > Len(f) THEN pos + Len(data) ELSE Len(f) IN
    [i \in 1..n |->
        IF i > pos /\ i <= pos + Len(data) THEN data[i - pos]
        ELSE IF i <= Len(f) THEN f[i] ELSE 0]

\* Variant of canLock: the lock is not taken into account.
canLockAlways(m) == TRUE

\* line 204: Lock proceeds only when the mutex is free
canLock(m) == m = FALSE

\* Variant of chanCap: the channel is unbuffered.
chanCapUnbuffered(rs) == 0

\* line 255: capacity of the error channel
chanCap(rs) == Len(rs)

\* line 263: the error put on the channel
rangeError(r, cause) == [Start |-> r.Start, End |-> r.End, Cause |-> cause]

\* The error value downloadRanges returns: its kind, and for the aggregated
\* error of line 278 the count and the list it prints.
errorValue(kind, list) == [Kind |-> kind, Count |-> Len(list), Errors |-> list]

\* Variant of joinResult: only the first error is reported.
joinResultFirstOnly(errorsList) ==
    IF Len(errorsList) > 0
    THEN errorValue("errors during download", <<errorsList[1]>>)
    ELSE errorValue("nil", <<>>)

\* lines 277-281
joinResult(errorsList) ==
    IF Len(errorsList) > 0
    THEN errorValue("errors during download", errorsList)
    ELSE errorValue("nil", <<>>)

\* main at line 338: the ranges are generated and reported; the index and
\* the request play no part in the download and are left out.
SelReported ==
    /\ parameters = <<>> /\ requestedParams = <<>> /\ provisional = <<>>
    /\ ranges \in Plans
    /\ totalSize = sumSizes(ranges, 1, 0)
    /\ pcm = "reported"

InitDl ==
    /\ SelReported
    /\ plan = <<>>
    /\ file \in {<<>>, StaleFile}
    /\ mutex = FALSE
    /\ errors = <<>>
    /\ opc = "idle"
    /\ launched = 0
    /\ maxEnd = 0
    /\ result = errorValue("none", <<>>)
    /\ tpc = <<>>
    /\ body = <<>>
    /\ terr = <<>>
    /\ ParseIdle

\* Variant of MainDownload: main stops when there is nothing to download.
MainDownloadSkipEmpty ==
    /\ pcm = "reported"
    /\ Len(ranges) > 0
    /\ pcm' = "download"
    /\ plan' = ranges
    /\ opc' = "create"
    /\ tpc' = [t \in 1..Len(ranges) |-> "idle"]
    /\ body' = [t \in 1..Len(ranges) |-> <<>>]
    /\ terr' = [t \in 1..Len(ranges) |-> "nil"]
    /\ UNCHANGED <<parameters, requestedParams, provisional, ranges, totalSize,
                   file, mutex, errors, launched, maxEnd, result, parseVars>>

\* lines 338-340: main calls downloadRanges with the ranges, whatever their
\* number
MainDownload ==
    /\ pcm = "reported"
    /\ pcm' = "download"
    /\ plan' = ranges
    /\ opc' = "create"
    /\ tpc' = [t \in 1..Len(ranges) |-> "idle"]
    /\ body' = [t \in 1..Len(ranges) |-> <<>>]
    /\ terr' = [t \in 1..Len(ranges) |-> "nil"]
    /\ UNCHANGED <<parameters, requestedParams, provisional, ranges, totalSize,
                   file, mutex, errors, launched, maxEnd, result, parseVars>>

\* lines 232-243: maxEnd, then OpenFile with O_CREATE|O_TRUNC
Create ==
    /\ opc = "create"
    /\ maxEnd' = computeMaxEnd(plan, 1, 0)
    /\ file' = <<>>
    /\ opc' = "truncate"
    /\ UNCHANGED <<plan, mutex, errors, launched, result, tpc, body, terr, selVars, parseVars>>

CreateFail ==
    /\ opc = "create"
    /\ maxEnd' = computeMaxEnd(plan, 1, 0)
    /\ result' = errorValue("error creating output file", <<>>)
    /\ opc' = "returned"
    /\ UNCHANGED <<plan, file, mutex, errors, launched, tpc, body, terr, selVars, parseVars>>

\* lines 246-251: Truncate(maxEnd + 1), Close
Truncate ==
    /\ opc = "truncate"
    /\ file' = truncateTo(file, preallocSize(maxEnd))
    /\ opc' = "launch"
    /\ UNCHANGED <<plan, mutex, errors, launched, maxEnd, result, tpc, body, terr, selVars, parseVars>>

TruncateFail ==
    /\ opc = "truncate"
    /\ result' = errorValue("error pre-allocating file", <<>>)
    /\ opc' = "returned"
    /\ UNCHANGED <<plan, file, mutex, errors, launched, maxEnd, tpc, body, terr, selVars, parseVars>>

\* lines 258-266: one iteration of the launch loop (wg.Add, go func)
Launch ==
    /\ opc = "launch"
    /\ launched < Len(plan)
    /\ launched' = launched + 1
    /\ tpc' = [tpc EXCEPT ![launched + 1] = "request"]
    /\ UNCHANGED <<plan, file, mutex, errors, opc, maxEnd, result, body, terr, selVars, parseVars>>

\* line 268: the loop is over, the orchestrator blocks in wg.Wait
EnterWait ==
    /\ opc = "launch"
    /\ launched = Len(plan)
    /\ opc' = "wait"
    /\ UNCHANGED <<plan, file, mutex, errors, launched, maxEnd, result, tpc, body, terr, selVars, parseVars>>

\* Variant of Join: a run with failed ranges starts the launch loop again.
JoinRetry ==
    /\ opc = "wait"
    /\ \A t \in Tasks : tpc[t] = "done"
    /\ IF Len(errors) > 0
       THEN /\ opc' = "launch"
            /\ launched' = 0
            /\ tpc' = [t \in Tasks |-> "idle"]
            /\ body' = [t \in Tasks |-> <<>>]
            /\ terr' = [t \in Tasks |-> "nil"]
            /\ result' = result
       ELSE /\ opc' = "returned"
            /\ result' = joinResult(errors)
            /\ UNCHANGED <<launched, tpc, body, terr>>
    /\ errors' = <<>>
    /\ UNCHANGED <<plan, file, mutex, maxEnd, selVars, parseVars>>

\* Variant of Join: the orchestrator does not wait for the goroutines.
JoinNoWait ==
    /\ opc = "wait"
    /\ result' = joinResult(errors)
    /\ errors' = <<>>
    /\ opc' = "returned"
    /\ UNCHANGED <<plan, file, mutex, launched, maxEnd, tpc, body, terr, selVars, parseVars>>

\* lines 268-281: wg.Wait returns, close, drain, return
Join ==
    /\ opc = "wait"
    /\ \A t \in Tasks : tpc[t] = "done"
    /\ result' = joinResult(errors)
    /\ errors' = <<>>
    /\ opc' = "returned"
    /\ UNCHANGED <<plan, file, mutex, launched, maxEnd, tpc, body, terr, selVars, parseVars>>

\* lines 193-196: client.Do fails (transport error or timeout)
RequestError(t) ==
    /\ tpc[t] = "request"
    /\ terr' = [terr EXCEPT ![t] = "error making request"]
    /\ tpc' = [tpc EXCEPT ![t] = "report"]
    /\ UNCHANGED <<plan, file, mutex, errors, opc, launched, maxEnd, result, body, selVars, parseVars>>

\* Variant of BadStatus: the status is noted but the body is written anyway.
BadStatusWritten(t) ==
    /\ tpc[t] = "request"
    /\ terr' = [terr EXCEPT ![t] = "unexpected status code"]
    /\ body' = [body EXCEPT ![t] = span(plan[t])]
    /\ tpc' = [tpc EXCEPT ![t] = "lock"]
    /\ UNCHANGED <<plan, file, mutex, errors, opc, launched, maxEnd, result, selVars, parseVars>>

\* lines 199-201: a response that is not 206
BadStatus(t) ==
    /\ tpc[t] = "request"
    /\ terr' = [terr EXCEPT ![t] = "unexpected status code"]
    /\ tpc' = [tpc EXCEPT ![t] = "report"]
    /\ UNCHANGED <<plan, file, mutex, errors, opc, launched, maxEnd, result, body, selVars, parseVars>>

\* lines 193-201: 206; the body is the span, or less when the resource ends early
Partial(t) ==
    /\ tpc[t] = "request"
    /\ \E k \in 0..Len(span(plan[t])) :
          body' = [body EXCEPT ![t] = prefix(span(plan[t]), k)]
    /\ tpc' = [tpc EXCEPT ![t] = "lock"]
    /\ UNCHANGED <<plan, file, mutex, errors, opc, launched, maxEnd, result, terr, selVars, parseVars>>

\* line 204
Lock(t) ==
    /\ tpc[t] = "lock"
    /\ canLock(mutex)
    /\ mutex' = TRUE
    /\ tpc' = [tpc EXCEPT ![t] = "open"]
    /\ UNCHANGED <<plan, file, errors, opc, launched, maxEnd, result, body, terr, selVars, parseVars>>

\* lines 208-212
Open(t) ==
    /\ tpc[t] = "open"
    /\ tpc' = [tpc EXCEPT ![t] = "seek"]
    /\ UNCHANGED <<plan, file, mutex, errors, opc, launched, maxEnd, result, body, terr, selVars, parseVars>>

\* Variant of OpenFail: the error return leaves without the deferred Unlock.
OpenFailNoUnlock(t) ==
    /\ tpc[t] = "open"
    /\ terr' = [terr EXCEPT ![t] = "error opening output file"]
    /\ tpc' = [tpc EXCEPT ![t] = "report"]
    /\ UNCHANGED <<plan, file, mutex, errors, opc, launched, maxEnd, result, body, selVars, parseVars>>

OpenFail(t) ==
    /\ tpc[t] = "open"
    /\ terr' = [terr EXCEPT ![t] = "error opening output file"]
    /\ tpc' = [tpc EXCEPT ![t] = "unlock"]
    /\ UNCHANGED <<plan, file, mutex, errors, opc, launched, maxEnd, result, body, selVars, parseVars>>

\* lines 215-218
Seek(t) ==
    /\ tpc[t] = "seek"
    /\ tpc' = [tpc EXCEPT ![t] = "copy"]
    /\ UNCHANGED <<plan, file, mutex, errors, opc, launched, maxEnd, result, body, terr, selVars, parseVars>>

SeekFail(t) ==
    /\ tpc[t] = "seek"
    /\ terr' = [terr EXCEPT ![t] = "error seeking in file"]
    /\ tpc' = [tpc EXCEPT ![t] = "unlock"]
    /\ UNCHANGED <<plan, file, mutex, errors, opc, launched, maxEnd, result, body, selVars, parseVars>>

\* lines 221-224: io.Copy writes the whole body, or stops after k bytes
\* with an error (body read cut off, or the write fails)
Copy(t) ==
    /\ tpc[t] = "copy"
    /\ \E k \in 0..Len(body[t]) :
          /\ file' = writeAt(file, seekPos(plan[t]), prefix(body[t], k))
          /\ terr' = [terr EXCEPT ![t] =
                        IF k < Len(body[t]) THEN "error copying data" ELSE "nil"]
    /\ tpc' = [tpc EXCEPT ![t] = "unlock"]
    /\ UNCHANGED <<plan, mutex, errors, opc, launched, maxEnd, result, body, selVars, parseVars>>

\* lines 221-224 under the client of lines 180-182: Client.Timeout also
\* covers reading resp.Body, and its timer runs on from client.Do while the
\* goroutine waits for the lock; when it fires, io.Copy stops after k bytes
CopyTimeout(t) ==
    /\ tpc[t] = "copy"
    /\ \E k \in 0..(Len(body[t]) - 1) :
          file' = writeAt(file, seekPos(plan[t]), prefix(body[t], k))
    /\ terr' = [terr EXCEPT ![t] = "error copying data: Client.Timeout exceeded"]
    /\ tpc' = [tpc EXCEPT ![t] = "unlock"]
    /\ UNCHANGED <<plan, mutex, errors, opc, launched, maxEnd, result, body, selVars, parseVars>>

\* the deferred out.Close and mutex.Unlock (lines 205, 212) as downloadRange returns
Unlock(t) ==
    /\ tpc[t] = "unlock"
    /\ mutex' = FALSE
    /\ tpc' = [tpc EXCEPT ![t] = "report"]
    /\ UNCHANGED <<plan, file, errors, opc, launched, maxEnd, result, body, terr, selVars, parseVars>>

\* lines 261-264: the goroutine sends its error, if any, then wg.Done
Report(t) ==
    /\ tpc[t] = "report"
    /\ IF terr[t] # "nil"
       THEN /\ Len(errors) < chanCap(plan)
            /\ errors' = Append(errors, rangeError(plan[t], terr[t]))
       ELSE errors' = errors
    /\ tpc' = [tpc EXCEPT ![t] = "done"]
    /\ UNCHANGED <<plan, file, mutex, opc, launched, maxEnd, result, body, terr, selVars, parseVars>>

NextDl ==
    \/ MainDownload
    \/ Create \/ CreateFail \/ Truncate \/ TruncateFail
    \/ Launch \/ EnterWait \/ Join
    \/ \E t \in Tasks : RequestError(t)
    \/ \E t \in Tasks : BadStatus(t)
    \/ \E t \in Tasks : Partial(t)
    \/ \E t \in Tasks : Lock(t)
    \/ \E t \in Tasks : Open(t)
    \/ \E t \in Tasks : OpenFail(t)
    \/ \E t \in Tasks : Seek(t)
    \/ \E t \in Tasks : SeekFail(t)
    \/ \E t \in Tasks : Copy(t)
    \/ \E t \in Tasks : CopyTimeout(t)
    \/ \E t \in Tasks : Unlock(t)
    \/ \E t \in Tasks : Report(t)

SpecDl == InitDl /\ [][NextDl]_vars

\* The same, with the scheduling the claim on termination assumes: a step
\* that can be taken (a runnable goroutine, an answered or timed-out request,
\* a free lock) is taken in the end.
SpecDlFair == SpecDl /\ WF_vars(NextDl)

(***************************************************************************)
(* Properties of downloadRanges / downloadRange, under SpecDl.             *)
(***************************************************************************)
\* The goroutines between mutex.Lock and mutex.Unlock.
InCritical == { t \in Tasks : tpc[t] \in {"open", "seek", "copy", "unlock"} }

\* downloadRanges returned from the code after wg.Wait (not from a failed
\* create or pre-allocation).
Joined ==
    /\ opc = "returned"
    /\ result.Kind \in {"nil", "errors during download"}

Failing == { t \in Tasks : terr[t] # "nil" }

\* The file holds, from the range's start on, the bytes the task received.
Holds(t) ==
    \A i \in 1..Len(body[t]) :
        /\ plan[t].Start + i <= Len(file)
        /\ file[plan[t].Start + i] = body[t][i]

\* The size the plan calls for: the largest end (0 when none is larger) + 1.
PlanSize ==
    LET ends == {plan[t].End : t \in Tasks} \cup {0} IN
    (CHOOSE m \in ends : \A e \in ends : e <= m) + 1

\* C1: at most one goroutine at a time is between mutex.Lock and
\* mutex.Unlock (the open/seek/write/close section).
MutualExclusion == Cardinality(InCritical) <= 1

\* C1 witness: one goroutine is copying while another, already answered,
\* waits for the lock.
MutualExclusionWitness ==
    \E t \in Tasks : \E u \in Tasks :
        t # u /\ tpc[t] = "copy" /\ tpc[u] = "lock" /\ mutex = TRUE

\* C2: every range is attempted and runs to its end whatever its siblings
\* do; a range whose task did not fail is in the file from the moment its
\* copy ends; after the join the result reports exactly the failed ranges,
\* each with its start and end, and is nil iff none failed.
FailureAggregation ==
    /\ \A t \in Tasks :
          (tpc[t] \in {"unlock", "report", "done"} /\ terr[t] = "nil") => Holds(t)
    /\ Joined =>
          /\ \A t \in Tasks : tpc[t] = "done"
          /\ launched = Len(plan)
          /\ (result.Kind = "nil") <=> (Failing = {})
          /\ Failing # {} =>
                /\ result.Count = Cardinality(Failing)
                /\ Len(result.Errors) = Cardinality(Failing)
                /\ \A t \in Failing :
                      \E n \in DOMAIN result.Errors :
                          /\ result.Errors[n].Start = plan[t].Start
                          /\ result.Errors[n].End = plan[t].End
                          /\ result.Errors[n].Cause = terr[t]

\* C2 witness: two ranges, one failed and is reported, the other was
\* written in full.
FailureAggregationWitness ==
    /\ Joined
    /\ Len(plan) = 2
    /\ Cardinality(Failing) = 1
    /\ \E t \in Tasks :
          /\ terr[t] = "nil"
          /\ body[t] = span(plan[t])
          /\ Len(body[t]) > 0

\* C3: when every fetch succeeded with exactly the requested span, after
\* downloadRanges returns the file is as long as it was pre-sized and holds
\* the source bytes at start..end of every range.
EndToEndContent ==
    (Joined /\ \A t \in Tasks : terr[t] = "nil" /\ body[t] = span(plan[t])) =>
        /\ Len(file) = PlanSize
        /\ \A t \in Tasks : \A o \in plan[t].Start .. plan[t].End :
              file[o + 1] = srcByte(o)

\* C3 witness: two non-empty ranges, the second not at offset 0, both
\* fetched in full and written.
EndToEndWitness ==
    /\ Joined
    /\ Len(plan) = 2
    /\ \A t \in Tasks :
          terr[t] = "nil" /\ body[t] = span(plan[t]) /\ Len(body[t]) > 0

\* C4: when the first goroutine is about to be launched the file has been
\* truncated and extended to (largest end) + 1 zero bytes, and it has that
\* size in every state in which a goroutine exists, so at every write.
PresizeBeforeWrite ==
    /\ (opc = "launch" /\ launched = 0) => file = [i \in 1..PlanSize |-> 0]
    /\ (\E t \in Tasks : tpc[t] # "idle") => Len(file) = PlanSize

\* C4 witness: a goroutine has just written a non-empty body into the
\* pre-sized file.
PresizeWitness ==
    \E t \in Tasks :
        /\ tpc[t] = "unlock"
        /\ terr[t] = "nil"
        /\ Len(body[t]) > 0
        /\ Len(file) = PlanSize

\* The phase of the Transfer Orchestrator, read off downloadRanges' position:
\* Init up to the end of the pre-allocation, FilePreallocated until the first
\* goroutine is started, RangesInFlight until wg.Wait returns.
Phase ==
    CASE opc = "idle" -> "NotCalled"
      [] opc \in {"create", "truncate"} -> "Init"
      [] opc = "launch" /\ launched = 0 -> "FilePreallocated"
      [] opc = "launch" /\ launched > 0 -> "RangesInFlight"
      [] opc = "wait" -> "RangesInFlight"
      [] opc = "returned" /\ result.Kind = "nil" -> "Completed"
      [] opc = "returned" /\ result.Kind # "nil" -> "Failed"

ClaimedEdges ==
    { <<"NotCalled", "Init">>, <<"Init", "FilePreallocated">>,
      <<"FilePreallocated", "RangesInFlight">>,
      <<"RangesInFlight", "Completed">>, <<"RangesInFlight", "Failed">> }

\* C11, as claimed: the phases change only along Init -> FilePreallocated ->
\* RangesInFlight -> {Completed | Failed}, so that every run that ends has
\* passed through FilePreallocated and RangesInFlight in that order.
OrchestratorPhasesClaimed ==
    [][Phase' # Phase => <<Phase, Phase'>> \in ClaimedEdges]_vars

\* C11, amended: the phases change only along Init -> FilePreallocated ->
\* RangesInFlight -> {Completed | Failed}, or from Init straight to Failed
\* (the create or the pre-allocation failed); no phase is entered again, and
\* Completed is entered from RangesInFlight only.
OrchestratorPhases ==
    [][Phase' # Phase =>
          <<Phase, Phase'>> \in ClaimedEdges \cup {<<"Init", "Failed">>}]_vars

\* C11 witness: a run has ended in Failed without a pre-allocated file.
OrchestratorPhasesWitness ==
    /\ Phase = "Failed"
    /\ result.Kind = "error pre-allocating file"
    /\ launched = 0
    /\ Len(plan) > 0

\* C12: goroutine t exists iff the launch loop has reached range t, so one
\* per range once the loop is over; downloadRanges has returned only when no
\* goroutine is fetching or writing, and after the launch loop only when all
\* are done; until then the result is unset and no error has been taken off
\* the channel.
BarrierJoin ==
    /\ launched <= Len(plan)
    /\ \A t \in Tasks : (tpc[t] # "idle") <=> (t <= launched)
    /\ opc = "wait" => launched = Len(plan)
    /\ opc = "returned" => \A t \in Tasks : tpc[t] \in {"idle", "done"}
    /\ Joined => (launched = Len(plan) /\ \A t \in Tasks : tpc[t] = "done")
    /\ opc # "returned" =>
          /\ result.Kind = "none"
          /\ Len(errors) = Cardinality({t \in Failing : tpc[t] = "done"})

\* C12 witness: the orchestrator is held in wg.Wait by a goroutine that is
\* still copying while its sibling is done.
BarrierJoinWitness ==
    /\ opc = "wait"
    /\ \E t \in Tasks : \E u \in Tasks : tpc[t] = "copy" /\ tpc[u] = "done"

FileErrors ==
    { "error opening output file", "error seeking in file", "error copying data",
      "error copying data: Client.Timeout exceeded" }

\* C13: the lock is held exactly while some goroutine is between Lock and
\* the deferred Unlock; a goroutine that has left downloadRange, by success
\* or by a failed open, seek or copy, does not hold it, so a goroutine
\* waiting for the lock while nobody is inside finds it free.
LockReleased ==
    /\ mutex = (InCritical # {})
    /\ \A t \in Tasks : tpc[t] \in {"report", "done"} => t \notin InCritical
    /\ \A u \in Tasks : (tpc[u] = "lock" /\ InCritical = {}) => mutex = FALSE

\* C13 witness: a goroutine failed inside the critical section and has left
\* it, and a sibling has taken the lock after it.
LockReleasedWitness ==
    \E t \in Tasks : \E u \in Tasks :
        /\ terr[t] \in FileErrors
        /\ tpc[t] \in {"report", "done"}
        /\ tpc[u] = "open"
        /\ mutex = TRUE

FetchErrors == { "error making request", "unexpected status code" }

\* C14: a goroutine whose request fails or is answered with another status
\* than 206 fails in that very step, straight from the request, without
\* touching the lock, the file or any sibling; from then on it is past the
\* critical section for good and none of its steps changes the file or the
\* lock.
FetchFailureIsolated ==
    /\ [](\A t \in Tasks :
            terr[t] \in FetchErrors => (tpc[t] \in {"report", "done"} /\ body[t] = <<>>))
    /\ [][\A t \in Tasks :
            /\ (terr[t] = "nil" /\ terr'[t] \in FetchErrors) =>
                  /\ tpc[t] = "request"
                  /\ file' = file
                  /\ mutex' = mutex
                  /\ \A u \in Tasks \ {t} :
                        tpc'[u] = tpc[u] /\ terr'[u] = terr[u] /\ body'[u] = body[u]
            /\ (terr[t] \in FetchErrors /\ tpc'[t] # tpc[t]) =>
                  (file' = file /\ mutex' = mutex)]_vars

\* C14 witness: one range failed on its status and is reported, while the
\* sibling's bytes are in the file.
FetchFailureWitness ==
    \E t \in Tasks : \E u \in Tasks :
        /\ terr[t] = "unexpected status code"
        /\ tpc[t] = "done"
        /\ terr[u] = "nil"
        /\ tpc[u] = "done"
        /\ Len(body[u]) > 0
        /\ Holds(u)

\* C17: a goroutine that was answered 206 and holds the lock is not made to
\* fail by the timeout, and so never leaves its range partly written
\* because of it.
TimeoutSparesFileIO ==
    \A t \in Tasks :
        tpc[t] \in {"unlock", "report", "done"} =>
            terr[t] # "error copying data: Client.Timeout exceeded"

\* C18: a goroutine about to report is never blocked on the channel, which
\* never holds more errors than there are ranges; and under fair scheduling
\* every goroutine ends and downloadRanges returns.
TerminatesUnblocked ==
    /\ [](\A t \in Tasks : tpc[t] = "report" => ENABLED Report(t))
    /\ [](Len(errors) <= Len(plan))
    /\ <>(opc = "returned" /\ \A t \in Tasks : tpc[t] \in {"idle", "done"})

\* C18 witness: every range of a two-range plan has failed, both errors are
\* on the channel, and the orchestrator can go on.
TerminatesWitness ==
    /\ opc = "wait"
    /\ Len(plan) = 2
    /\ Len(errors) = 2
    /\ \A t \in Tasks : tpc[t] = "done"

\* C19: with no ranges main still calls downloadRanges; the call starts no
\* goroutine, sends no error and takes no lock, leaves the file at exactly
\* one zero byte once it is pre-allocated, and returns nil (unless the
\* create or the pre-allocation itself fails).
EmptyPlanCompletes ==
    /\ (pcm = "reported" /\ ranges = <<>>) => ENABLED MainDownload
    /\ (pcm = "download" /\ plan = <<>>) =>
          /\ launched = 0 /\ errors = <<>> /\ mutex = FALSE /\ maxEnd = 0
          /\ opc \in {"launch", "wait"} => file = <<0>>
          /\ opc = "returned" =>
                /\ result.Kind \in {"nil", "error creating output file",
                                    "error pre-allocating file"}
                /\ result.Kind = "nil" => file = <<0>>

\* C19 witness: downloadRanges has returned nil for an empty plan.
EmptyPlanWitness ==
    /\ pcm = "download"
    /\ plan = <<>>
    /\ opc = "returned"
    /\ result.Kind = "nil"
    /\ file = <<0>>

(***************************************************************************)
(* SpecParse: main's call of parseIDXFile (line 316) on an idx file, and a *)
(* second call on the same file.                                           *)
(***************************************************************************)
\* the fields the lines of the checked files are made of
FirstFields  == {str(<<"7">>), str(<<"x">>), <<>>}
SecondFields == {str(<<"1", "2">>), str(<<"-", "3">>), str(<<"x">>)}
RestFields   == <<str(<<"d", "=", "1">>), str(<<"A">>), str(<<"s", "f", "c">>),
                  str(<<"a", "n", "l">>), str(<<"e">>)>>
FieldCounts  == {5, 6, 7}

Filler(n) == <<run("x", n)>>

\* the lines: index lines of 5, 6 or 7 fields, the empty line, and lines of
\* one field just below and at the scanner's limit
IndexLines ==
    {<<f1, f2>> \o SubSeq(RestFields, 1, n - 2) :
        f1 \in FirstFields, f2 \in SecondFields, n \in FieldCounts}
    \cup {<<<<>>>>, <<Filler(MaxScanTokenSize - 1)>>, <<Filler(MaxScanTokenSize)>>}

RECURSIVE joinWith(_, _)
joinWith(pieces, sep) ==
    IF Len(pieces) = 0 THEN <<>>
    ELSE IF Len(pieces) = 1 THEN pieces[1]
    ELSE pieces[1] \o <<run(sep, 1)>> \o joinWith(Tail(pieces), sep)

lineText(fields) == joinWith(fields, ":")

\* the file: the lines, each ended by a newline, the last one only if
\* eofNewline
RECURSIVE fileText(_, _)
fileText(ls, eofNewline) ==
    IF ls = <<>> THEN <<>>
    ELSE IF Len(ls) = 1
         THEN lineText(ls[1]) \o (IF eofNewline THEN <<run("\n", 1)>> ELSE <<>>)
         ELSE lineText(ls[1]) \o <<run("\n", 1)>> \o fileText(Tail(ls), eofNewline)

InitParse ==
    /\ parameters = <<>> /\ requestedParams = <<>> /\ provisional = <<>>
    /\ ranges = <<>> /\ totalSize = 0 /\ pcm = "start"
    /\ DlIdle
    /\ idxLines \in SeqsUpTo(IndexLines, MaxLines)
    /\ \E eofNewline \in BOOLEAN :
          /\ eofNewline \/ (idxLines # <<>> /\ lineText(idxLines[Len(idxLines)]) # <<>>)
          /\ idxText = fileText(idxLines, eofNewline)
    /\ parsed = NotParsed
    /\ reparsed = NotParsed
    /\ ppc = "start"

\* lines 67-70: os.Open fails
ParseOpenFail ==
    /\ ppc = "start"
    /\ parsed' = [Params |-> <<>>, Err |-> "error opening idx file"]
    /\ ppc' = "failed"
    /\ UNCHANGED <<idxLines, idxText, reparsed, selVars, dlVars>>

\* lines 66-111: parseIDXFile on the file
ParseFile ==
    /\ ppc = "start"
    /\ parsed' = parseIDXFile(idxText)
    /\ ppc' = "parsed"
    /\ UNCHANGED <<idxLines, idxText, reparsed, selVars, dlVars>>

\* lines 66-111: parseIDXFile once more on the same file
ParseAgain ==
    /\ ppc = "parsed"
    /\ reparsed' = parseIDXFile(idxText)
    /\ ppc' = "reparsed"
    /\ UNCHANGED <<idxLines, idxText, parsed, selVars, dlVars>>

NextParse == ParseOpenFail \/ ParseFile \/ ParseAgain

SpecParse == InitParse /\ [][NextParse]_vars

\* The fields that are valid integers, and their values.
IntegerFields == {str(<<"7">>), str(<<"1", "2">>), str(<<"-", "3">>)}

IntegerOf(f) ==
    CASE f = str(<<"7">>) -> 7
      [] f = str(<<"1", "2">>) -> 12
      [] f = str(<<"-", "3">>) -> 0 - 3

\* a line with at least 6 fields whose first two are valid integers
WellFormedLine(fields) ==
    /\ Len(fields) >= 6
    /\ fields[1] \in IntegerFields
    /\ fields[2] \in IntegerFields

\* the entries of the well-formed lines from position i on, in line order
RECURSIVE EntriesOf(_, _)
EntriesOf(ls, i) ==
    IF i > Len(ls) THEN <<>>
    ELSE IF WellFormedLine(ls[i])
         THEN <<[Number |-> IntegerOf(ls[i][1]), Offset |-> IntegerOf(ls[i][2]),
                 Date |-> str(<<"1">>), Parameter |-> ls[i][4],
                 Level |-> ls[i][5], Type |-> ls[i][6]]>> \o EntriesOf(ls, i + 1)
         ELSE EntriesOf(ls, i + 1)

\* C15: once the file is opened, parseIDXFile returns without error the
\* entries of exactly the lines that have at least 6 colon-separated fields
\* and integer first and second fields, in line order, whatever the other
\* lines are; a second call on the same text returns the identical sequence.
ParseOrderPreservingTolerant ==
    /\ ppc \in {"parsed", "reparsed"} =>
          parsed = [Params |-> EntriesOf(idxLines, 1), Err |-> "nil"]
    /\ ppc = "reparsed" => reparsed = parsed

====
